---- MODULE Spec2Model ----
(***************************************************************************)
(* Grading orchestration of the short-answer grader: the grading           *)
(* controller (submitAnswer, regradeSubmission, overrideScore, batchGrade),*)
(* the ML-service client's withRetry, and the Submission schema.           *)
(*                                                                         *)
(* JavaScript values are encoded with a uniform shape so that they can be  *)
(* compared: a number-or-undefined is [k, v] with k in {"num", "undef",    *)
(* "null", "nan"}; an array-or-undefined is [def, v].  Dates are not       *)
(* modelled.                                                               *)
(***************************************************************************)
EXTENDS Integers, Sequences, FiniteSets, TLC

VARIABLES db, reqs, nreq, rt

vars == <<db, reqs, nreq, rt>>

(***************************************************************************)
(* Bounds                                                                  *)
(***************************************************************************)
\* requests (handler invocations) started in one behaviour
MaxRequests == 3
\* documents in the submissions collection
MaxSubmissions == 2
\* largest maxRetries the retry harness is driven with
MaxRetryParam == 4

(***************************************************************************)
(* Program constants                                                       *)
(***************************************************************************)
\* withRetry = async (fn, maxRetries = 3, delay = 1000)
DefaultMaxRetries == 3
DefaultDelay == 1000

(***************************************************************************)
(* JavaScript value encodings                                              *)
(***************************************************************************)
Num(n) == [k |-> "num", v |-> n]
Undef == [k |-> "undef", v |-> 0]
NaN == [k |-> "nan", v |-> 0]
Null == [k |-> "null", v |-> 0]

\* a * b on JavaScript numbers: null converts to 0; undefined (or NaN)
\* times anything is NaN
Mul(a, b) ==
  IF a.k \in {"num", "null"} /\ b.k \in {"num", "null"}
    THEN Num(a.v * b.v) ELSE NaN

NoArr == [def |-> FALSE, v |-> <<>>]
Arr(s) == [def |-> TRUE, v |-> s]

\* x || []
OrEmpty(x) == IF x.def THEN x.v ELSE <<>>

NoMeta == [x \in {} |-> ""]

(***************************************************************************)
(* Users, questions (Question model; rubric populated)                     *)
(***************************************************************************)
Students == {"s1", "s2"}
Teachers == {"t1", "t2"}
Users == Students \cup Teachers

role(u) == IF u \in Teachers THEN "teacher" ELSE "student"

\* q1 has a rubric with two dimensions, q2 has none, q3 is inactive;
\* any other id is not found.
Questions ==
  [q1 |-> [maxScore |-> Num(10), createdBy |-> "t1", isActive |-> TRUE,
           rubricDims |-> <<"D1", "D2">>, referenceAnswer |-> "ref1"],
   q2 |-> [maxScore |-> Num(5), createdBy |-> "t2", isActive |-> TRUE,
           rubricDims |-> <<>>, referenceAnswer |-> "ref2"],
   q3 |-> [maxScore |-> Num(100), createdBy |-> "t1", isActive |-> FALSE,
           rubricDims |-> <<>>, referenceAnswer |-> "ref3"]]

QuestionIds == {"q1", "q2", "q3", "qx"}

AnswerTexts == {"a", "b"}

(***************************************************************************)
(* Submission schema                                                       *)
(***************************************************************************)
FieldNames == {"student", "question", "answerText", "overallScore",
               "scaledOverallScore", "dimensionScores", "feedback", "status",
               "gradingMetadata", "manualOverride", "attempts"}

\* status: enum
StatusEnum == {"pending", "grading", "graded", "error", "manual_review"}

\* gradingMetadata: { model, modelVersion, timeMs, gradedAt }
GradingMetadataPaths == {"model", "modelVersion", "timeMs", "gradedAt"}

NoOverride == [set |-> FALSE, overriddenBy |-> "", originalScore |-> Undef,
               reason |-> ""]

\* Assigning an object to the nested path gradingMetadata: the schema is
\* strict (the default), so keys that are no path of the schema are dropped,
\* and keys whose value is undefined are not stored.
CastGradingMetadata(m) ==
  [x \in (DOMAIN m) \cap GradingMetadataPaths |-> m[x]]

\* a new submission whose attempts start at 0
NewSubmissionAtZero(student, question, answerText) ==
  [student |-> student, question |-> question, answerText |-> answerText,
   overallScore |-> Undef, scaledOverallScore |-> Undef,
   dimensionScores |-> <<>>, feedback |-> <<>>, status |-> "pending",
   gradingMetadata |-> NoMeta, manualOverride |-> NoOverride,
   attempts |-> 0]

\* new Submission({student, question, answerText, status: 'pending'})
\* with the schema defaults (attempts: 1)
NewSubmission(student, question, answerText) ==
  [student |-> student, question |-> question, answerText |-> answerText,
   overallScore |-> Undef, scaledOverallScore |-> Undef,
   dimensionScores |-> <<>>, feedback |-> <<>>, status |-> "pending",
   gradingMetadata |-> NoMeta, manualOverride |-> NoOverride,
   attempts |-> 1]

\* min: 0 only
InUnitNoMax(x) == x.k \in {"undef", "null"} \/ (x.k = "num" /\ x.v >= 0)

\* min: 0, max: 1 (the validators skip undefined and null)
InUnit(x) == x.k \in {"undef", "null"} \/ (x.k = "num" /\ x.v >= 0 /\ x.v <= 1)

\* Schema validation run by save(): overallScore min 0 max 1; a Number path
\* cannot hold NaN; every dimension score is required and within [0, 1];
\* status is one of the enum.
Validate(f) ==
  /\ InUnit(f.overallScore)
  /\ f.scaledOverallScore.k # "nan"
  /\ \A i \in 1..Len(f.dimensionScores) :
        /\ f.dimensionScores[i].score.k = "num"
        /\ InUnit(f.dimensionScores[i].score)
  /\ f.status \in StatusEnum
  /\ f.answerText # ""

(***************************************************************************)
(* Documents held by a handler: the fields, the id (0 until inserted) and  *)
(* the paths modified since the document was loaded or saved.              *)
(***************************************************************************)
NoDoc == [id |-> 0, f |-> NewSubmission("", "", ""), mod |-> {}]

Loaded(id) == [id |-> id, f |-> db[id], mod |-> {}]

\* doc.<path> = value
Assign(doc, path, value) ==
  [doc EXCEPT !.f[path] = value,
              !.mod = IF doc.f[path] = value THEN @ ELSE @ \cup {path}]

\* the collection after a save that writes the whole document
SavedWhole(store, doc, id) ==
  IF doc.id = 0
    THEN store @@ (id :> doc.f)
    ELSE [store EXCEPT ![id] = doc.f]

\* the collection after doc.save(): a new document is inserted whole, an
\* existing one has its modified paths written
Saved(store, doc, id) ==
  IF doc.id = 0
    THEN store @@ (id :> doc.f)
    ELSE [store EXCEPT ![id] =
            [p \in FieldNames |-> IF p \in doc.mod THEN doc.f[p] ELSE @[p]]]

NextId(store) == Cardinality(DOMAIN store) + 1

IdOf(store, doc) == IF doc.id = 0 THEN NextId(store) ELSE doc.id

AfterSave(store, doc) == [doc EXCEPT !.id = IdOf(store, doc), !.mod = {}]

(***************************************************************************)
(* The scoring capability's answers.  A call ends with a response body or  *)
(* with an error; an error carries the HTTP status of its response, 0 when *)
(* there was no response (timeout, connection refused).                    *)
(***************************************************************************)
FullMeta == [model |-> "m1", model_version |-> "v2", time_ms |-> "12"]

ResRubric ==
  [overall_score |-> Num(1),
   per_dimension |-> Arr(<<[name |-> "D1", score |-> Num(1)],
                           [name |-> "D2", score |-> Num(0)]>>),
   feedback |-> Arr(<<"fb1">>), metadata |-> FullMeta]

ResFlat ==
  [overall_score |-> Num(0), per_dimension |-> NoArr, feedback |-> NoArr,
   metadata |-> NoMeta]

ResOutOfRange ==
  [overall_score |-> Num(2), per_dimension |-> NoArr,
   feedback |-> Arr(<<"fb2">>), metadata |-> FullMeta]

ResNoScore ==
  [overall_score |-> Undef, per_dimension |-> NoArr, feedback |-> NoArr,
   metadata |-> NoMeta]

ResDimOutOfRange ==
  [overall_score |-> Num(1),
   per_dimension |-> Arr(<<[name |-> "D1", score |-> Num(2)]>>),
   feedback |-> Arr(<<"fb2">>), metadata |-> FullMeta]

GradeResults == {ResRubric, ResFlat, ResOutOfRange, ResNoScore,
                 ResDimOutOfRange}

\* response.data of a call: null, or the results it carries (one for
\* /grade, a list for /grade/batch)
Body(rs) == [isNull |-> FALSE, rs |-> rs]
NullBody == [isNull |-> TRUE, rs |-> <<>>]

Err(status, message) == [status |-> status, message |-> message, n |-> 0]
NoErr == Err(0, "")

Err4xx == Err(400, "Request failed with status code 400")
Err5xx == Err(500, "Request failed with status code 500")
ErrTimeout == Err(0, "timeout of 30000ms exceeded")
ErrRefused == Err(0, "connect ECONNREFUSED")

\* the failures the handlers' calls meet: one that is not retried and one
\* that is
CallErrors == {Err4xx, Err5xx}

Returned(body) == [ok |-> TRUE, value |-> body, err |-> NoErr]
Thrown(err) == [ok |-> FALSE, value |-> NullBody, err |-> err]

\* answers to POST /grade
GradeOutcomes ==
  {Returned(Body(<<r>>)) : r \in GradeResults} \cup {Returned(NullBody)}
    \cup {Thrown(e) : e \in CallErrors}

(***************************************************************************)
(* mlService.withRetry                                                     *)
(***************************************************************************)
\* state of one withRetry invocation: the loop variable, the settled
\* outcome, lastError, and the delays waited so far
RetryStart ==
  [attempt |-> 1, state |-> "running", value |-> NullBody,
   lastError |-> NoErr, error |-> NoErr, waits |-> <<>>]

\* error.response?.status >= 400 && error.response?.status < 500
IsClientError(err) == err.status >= 400 /\ err.status < 500

\* the delay slept after the failed attempt
RetryDelayDoubling(delay, attempt) == delay * (2 ^ (attempt - 1))

RetryDelay(delay, attempt) == delay * attempt

\* lastError = error
LastErrorKeepFirst(rs, err) == IF rs.lastError = NoErr THEN err ELSE rs.lastError

LastError(rs, err) == err

\* one iteration of the for loop: fn() is called and answers `out`
WithRetryStep(maxRetries, delay, rs, out) ==
  IF out.ok
    THEN [rs EXCEPT !.state = "returned", !.value = out.value]
    ELSE LET failed == [rs EXCEPT !.lastError = LastError(rs, out.err)] IN
         IF IsClientError(out.err)
           THEN [failed EXCEPT !.state = "thrown", !.error = out.err]
           ELSE IF rs.attempt < maxRetries
             THEN [failed EXCEPT !.attempt = @ + 1,
                                 !.waits = Append(@, RetryDelay(delay, rs.attempt))]
             ELSE [failed EXCEPT !.attempt = @ + 1, !.state = "thrown",
                                 !.error = failed.lastError]

(***************************************************************************)
(* Handler invocations.  A handler runs from one await to the next in one  *)
(* step; `pc` is the await it is suspended at.  `pre` is the collection as *)
(* it was when the handler was entered, `failure` how its scoring failed   *)
(* ("unhealthy", "client" for a 4xx, "exhausted"), and `log` the settled scoring calls of a batch with the answers *)
(* they carried (history, for stating properties).                         *)
(***************************************************************************)
Slots == {1, 2}

NoResp == [code |-> 0, message |-> "", doc |-> NoDoc.f, list |-> <<>>]

Idle ==
  [kind |-> "idle", pc |-> "idle", actor |-> "", qid |-> "",
   answerText |-> "", ids |-> {}, score |-> Undef, doc |-> NoDoc,
   docs |-> <<>>, groups |-> <<>>, gi |-> 1, si |-> 1, results |-> <<>>,
   log |-> <<>>, retry |-> RetryStart, failure |-> "none", resp |-> NoResp,
   pre |-> <<>>]

AllIdle == \A r \in Slots : reqs[r].kind = "idle"

Respond(req, code, message) ==
  [req EXCEPT !.pc = "done",
              !.resp = [NoResp EXCEPT !.code = code, !.message = message]]

RespondDoc(req, code, message, f) ==
  [req EXCEPT !.pc = "done",
              !.resp = [NoResp EXCEPT !.code = code, !.message = message,
                                      !.doc = f]]

\* Object.entries(per_dimension).map(...) of submitAnswer and
\* regradeSubmission: scaledScore is data.score * maxScore
MapDimensions(per_dimension, maxScore) ==
  [i \in 1..Len(per_dimension) |->
     [dimensionName |-> per_dimension[i].name,
      score |-> per_dimension[i].score,
      scaledScore |-> Mul(per_dimension[i].score, maxScore)]]

\* an object literal's property whose value may be undefined
Prop(m, from, to) == IF from \in DOMAIN m THEN (to :> m[from]) ELSE NoMeta

\* m?.[from] || dflt
PropOr(m, from, to, dflt) ==
  IF from \in DOMAIN m THEN (to :> m[from]) ELSE (to :> dflt)

\* how a withRetry that threw `err` failed
FailureOf(err) == IF IsClientError(err) THEN "client" ELSE "exhausted"

\* catch (mlError): status = 'error', gradingMetadata = {error, gradedAt}
SetGradingError(doc, message) ==
  Assign(Assign(doc, "status", "error"), "gradingMetadata",
         CastGradingMetadata([error |-> message, gradedAt |-> "now"]))

\* rubricDims and referenceAnswer as submitAnswer and regradeSubmission
\* choose them: the rubric's dimensions when it has any, else the
\* question's reference answer; the other one is null
GradeArgs(qid) ==
  IF Len(Questions[qid].rubricDims) > 0
    THEN [rubricDims |-> Arr(Questions[qid].rubricDims), referenceAnswer |-> ""]
    ELSE [rubricDims |-> NoArr,
          referenceAnswer |-> Questions[qid].referenceAnswer]

\* the flat loop of batchGrade passes referenceAnswer only (rubricDims
\* takes its default, null)
FlatGradeArgs(qid) ==
  [rubricDims |-> NoArr, referenceAnswer |-> Questions[qid].referenceAnswer]

\* the body mlService.grade posts to /grade, with rubric_dims only
GradePayloadRubricOnly(answerText, args) ==
  [answer_text |-> answerText]
    @@ (IF args.rubricDims.def /\ Len(args.rubricDims.v) > 0
          THEN [rubric_dims |-> args.rubricDims.v]
          ELSE NoMeta)

\* the body mlService.grade posts to /grade
GradePayload(answerText, args) ==
  [answer_text |-> answerText]
    @@ (IF args.rubricDims.def /\ Len(args.rubricDims.v) > 0
          THEN [rubric_dims |-> args.rubricDims.v]
          ELSE IF args.referenceAnswer # ""
            THEN [reference_answer |-> args.referenceAnswer]
            ELSE NoMeta)

\* a settled scoring call of submitAnswer or regradeSubmission, for the log
Settled(answerText, rs) ==
  [gi |-> 1, si |-> 1, answers |-> <<answerText>>, state |-> rs.state,
   value |-> rs.value, error |-> rs.error]

(***************************************************************************)
(* submitAnswer                                                            *)
(***************************************************************************)
\* Submission.findOne({student, question})
FindOne(student, question) ==
  {id \in DOMAIN db : db[id].student = student /\ db[id].question = question}

\* the existing submission is updated for a new attempt
ResubmitKeepingResults(doc, answerText) ==
  LET d1 == Assign(doc, "answerText", answerText)
      d2 == Assign(d1, "attempts", doc.f.attempts + 1)
  IN  Assign(d2, "status", "pending")

\* the existing submission is updated and its override dropped
ResubmitClearingOverride(doc, answerText) ==
  LET d1 == Assign(doc, "answerText", answerText)
      d2 == Assign(d1, "attempts", doc.f.attempts + 1)
      d3 == Assign(d2, "status", "pending")
      d4 == Assign(d3, "overallScore", Undef)
      d5 == Assign(d4, "scaledOverallScore", Undef)
      d6 == Assign(d5, "dimensionScores", <<>>)
      d7 == Assign(d6, "feedback", <<>>)
      d8 == Assign(d7, "gradingMetadata", CastGradingMetadata(NoMeta))
  IN  Assign(d8, "manualOverride", NoOverride)

\* if (submission): answerText, attempts + 1, status 'pending', and the
\* results of the previous attempt cleared
Resubmit(doc, answerText) ==
  LET d1 == Assign(doc, "answerText", answerText)
      d2 == Assign(d1, "attempts", doc.f.attempts + 1)
      d3 == Assign(d2, "status", "pending")
      d4 == Assign(d3, "overallScore", Undef)
      d5 == Assign(d4, "scaledOverallScore", Undef)
      d6 == Assign(d5, "dimensionScores", <<>>)
      d7 == Assign(d6, "feedback", <<>>)
  IN  Assign(d7, "gradingMetadata", CastGradingMetadata(NoMeta))

\* the question is looked up, then the student's submission for it
submitStart(r, student, qid, answerText) ==
  /\ reqs[r].kind = "idle"
  /\ nreq < MaxRequests
  /\ FindOne(student, qid) = {} => Cardinality(DOMAIN db) < MaxSubmissions
  /\ nreq' = nreq + 1
  /\ LET req == [Idle EXCEPT !.kind = "submit", !.actor = student,
                             !.qid = qid, !.answerText = answerText,
                             !.pre = db]
     IN  reqs' = [reqs EXCEPT ![r] =
           IF qid \notin DOMAIN Questions
             THEN Respond(req, 404, "Question not found")
           ELSE IF ~Questions[qid].isActive
             THEN Respond(req, 400, "This question is no longer accepting submissions")
           ELSE [req EXCEPT !.pc = "s_found",
                   !.doc = IF FindOne(student, qid) = {}
                             THEN NoDoc
                             ELSE Loaded(CHOOSE id \in FindOne(student, qid) :
                                           \A o \in FindOne(student, qid) : id <= o)]]
  /\ UNCHANGED <<db, rt>>

\* if (submission) {...} else {new Submission}; await submission.save()
submitSavePending(r) ==
  /\ reqs[r].kind = "submit" /\ reqs[r].pc = "s_found"
  /\ reqs[r].doc.id = 0 => Cardinality(DOMAIN db) < MaxSubmissions
  /\ LET req == reqs[r]
         doc == IF req.doc.id # 0
                  THEN Resubmit(req.doc, req.answerText)
                  ELSE [NoDoc EXCEPT !.f = NewSubmission(req.actor, req.qid,
                                                         req.answerText)]
     IN  /\ db' = Saved(db, doc, IdOf(db, doc))
         /\ reqs' = [reqs EXCEPT ![r] = [req EXCEPT !.pc = "s_pending",
                                           !.doc = AfterSave(db, doc)]]
  /\ UNCHANGED <<nreq, rt>>

\* submission.status = 'grading' without the save
submitSetGradingUnsaved(r) ==
  /\ reqs[r].kind = "submit" /\ reqs[r].pc = "s_pending"
  /\ reqs' = [reqs EXCEPT ![r] =
       [@ EXCEPT !.pc = "s_health", !.doc = Assign(@, "status", "grading")]]
  /\ UNCHANGED <<db, nreq, rt>>

\* submission.status = 'grading'; await submission.save()
submitSaveGrading(r) ==
  /\ reqs[r].kind = "submit" /\ reqs[r].pc = "s_pending"
  /\ LET doc == Assign(reqs[r].doc, "status", "grading")
     IN  /\ db' = Saved(db, doc, doc.id)
         /\ reqs' = [reqs EXCEPT ![r] = [@ EXCEPT !.pc = "s_health",
                                           !.doc = AfterSave(db, doc)]]
  /\ UNCHANGED <<nreq, rt>>

\* mlService.checkHealth(); an unhealthy service throws into catch (mlError)
submitHealth(r, healthy) ==
  /\ reqs[r].kind = "submit" /\ reqs[r].pc = "s_health"
  /\ reqs' = [reqs EXCEPT ![r] =
       IF healthy
         THEN [@ EXCEPT !.pc = "s_call", !.retry = RetryStart]
         ELSE [@ EXCEPT !.pc = "s_save", !.failure = "unhealthy",
                 !.doc = SetGradingError(@, "ML service is not available")]]
  /\ UNCHANGED <<db, nreq, rt>>

\* the results of a successful call are written to the submission
SubmitReconcileDefaultMax(doc, result, maxScore) ==
  LET d1 == Assign(doc, "overallScore", result.overall_score)
      d2 == Assign(d1, "scaledOverallScore", Mul(result.overall_score, Num(100)))
      d3 == Assign(d2, "status", "graded")
  IN  Assign(d3, "feedback", OrEmpty(result.feedback))

SubmitReconcile(doc, result, maxScore) ==
  LET d1 == Assign(doc, "overallScore", result.overall_score)
      d2 == Assign(d1, "scaledOverallScore", Mul(result.overall_score, maxScore))
      d3 == Assign(d2, "status", "graded")
      d4 == IF result.per_dimension.def
              THEN Assign(d3, "dimensionScores",
                          MapDimensions(result.per_dimension.v, maxScore))
              ELSE d3
      d5 == Assign(d4, "feedback", OrEmpty(result.feedback))
  IN  Assign(d5, "gradingMetadata",
        CastGradingMetadata(
          PropOr(result.metadata, "model", "model", "unknown")
            @@ PropOr(result.metadata, "model_version", "modelVersion", "v1.0")
            @@ Prop(result.metadata, "time_ms", "timeMs")
            @@ [gradedAt |-> "now"]))

\* one attempt of withRetry(() => mlService.grade({...})); when withRetry
\* settles, the try block or catch (mlError) runs up to the final save
submitCall(r, out) ==
  /\ reqs[r].kind = "submit" /\ reqs[r].pc = "s_call"
  /\ LET rs == WithRetryStep(DefaultMaxRetries, DefaultDelay, reqs[r].retry, out)
         req == [reqs[r] EXCEPT !.retry = RetryStart,
                   !.log = Append(@, Settled(reqs[r].answerText, rs))]
     IN  reqs' = [reqs EXCEPT ![r] =
           IF rs.state = "running" THEN [reqs[r] EXCEPT !.retry = rs]
           ELSE IF rs.state = "thrown"
             THEN [req EXCEPT !.pc = "s_save", !.failure = FailureOf(rs.error),
                     !.doc = SetGradingError(@, rs.error.message)]
           ELSE IF rs.value.isNull
             THEN [req EXCEPT !.pc = "s_save",
                     !.doc = SetGradingError(@, "Cannot read properties of null")]
           ELSE [req EXCEPT !.pc = "s_save",
                   !.doc = SubmitReconcile(@, rs.value.rs[1],
                                           Questions[req.qid].maxScore)]]
  /\ UNCHANGED <<db, nreq, rt>>

\* await submission.save(); res.status(201).json(...); a rejected save is
\* caught by the outer catch, which answers 500
submitSave(r) ==
  /\ reqs[r].kind = "submit" /\ reqs[r].pc = "s_save"
  /\ LET doc == reqs[r].doc IN
     IF Validate(doc.f)
       THEN /\ db' = Saved(db, doc, doc.id)
            /\ reqs' = [reqs EXCEPT ![r] =
                 RespondDoc([@ EXCEPT !.doc = AfterSave(db, doc)], 201,
                            IF doc.f.status = "graded"
                              THEN "Answer graded successfully"
                              ELSE IF doc.f.status = "error"
                                THEN "Grading failed - please try again later"
                                ELSE "Grading in progress",
                            doc.f)]
       ELSE /\ db' = db
            /\ reqs' = [reqs EXCEPT ![r] = Respond(@, 500, "Validation failed")]
  /\ UNCHANGED <<nreq, rt>>

\* the response has been sent: the invocation is over
finish(r) ==
  /\ reqs[r].pc = "done"
  /\ reqs' = [reqs EXCEPT ![r] = Idle]
  /\ UNCHANGED <<db, nreq, rt>>

(***************************************************************************)
(* regradeSubmission                                                       *)
(***************************************************************************)
\* the submission's student, or any teacher
MayRegradeAnyTeacher(id, actor) ==
  db[id].student = actor \/ role(actor) = "teacher"

\* isOwner || isTeacher: the submission's student, or the teacher who
\* created its question
MayRegrade(id, actor) ==
  LET isOwner == db[id].student = actor
      isTeacher == role(actor) = "teacher"
                     /\ Questions[db[id].question].createdBy = actor
  IN  isOwner \/ isTeacher

\* Submission.findById; the ownership check
regradeStart(r, id, actor) ==
  /\ reqs[r].kind = "idle"
  /\ nreq < MaxRequests
  /\ nreq' = nreq + 1
  /\ LET req == [Idle EXCEPT !.kind = "regrade", !.actor = actor,
                             !.ids = {id}, !.pre = db]
     IN  reqs' = [reqs EXCEPT ![r] =
           IF id \notin DOMAIN db
             THEN Respond(req, 404, "Submission not found")
           ELSE IF ~MayRegrade(id, actor)
             THEN Respond(req, 403, "Not authorized to regrade this submission")
           ELSE [req EXCEPT !.pc = "r_health", !.doc = Loaded(id),
                            !.qid = db[id].question]]
  /\ UNCHANGED <<db, rt>>

\* checkHealth: 503 when unhealthy; otherwise status = 'grading' is saved
regradeHealth(r, healthy) ==
  /\ reqs[r].kind = "regrade" /\ reqs[r].pc = "r_health"
  /\ IF healthy
       THEN LET doc == Assign(reqs[r].doc, "status", "grading")
            IN  /\ db' = Saved(db, doc, doc.id)
                /\ reqs' = [reqs EXCEPT ![r] =
                     [@ EXCEPT !.pc = "r_call", !.doc = AfterSave(db, doc),
                               !.retry = RetryStart]]
       ELSE /\ db' = db
            /\ reqs' = [reqs EXCEPT ![r] =
                 Respond([@ EXCEPT !.failure = "unhealthy"], 503,
                         "ML service is not available")]
  /\ UNCHANGED <<nreq, rt>>

\* the results are written and the regrade counted as an attempt
RegradeReconcileNewAttempt(doc, result, maxScore) ==
  LET d1 == Assign(doc, "overallScore", result.overall_score)
      d2 == Assign(d1, "scaledOverallScore", Mul(result.overall_score, maxScore))
      d3 == Assign(d2, "status", "graded")
      d4 == Assign(d3, "feedback", OrEmpty(result.feedback))
  IN  Assign(d4, "attempts", doc.f.attempts + 1)

\* the results of a successful call are written to the submission
RegradeReconcile(doc, result, maxScore) ==
  LET d1 == Assign(doc, "overallScore", result.overall_score)
      d2 == Assign(d1, "scaledOverallScore", Mul(result.overall_score, maxScore))
      d3 == Assign(d2, "status", "graded")
      d4 == IF result.per_dimension.def
              THEN Assign(d3, "dimensionScores",
                          MapDimensions(result.per_dimension.v, maxScore))
              ELSE d3
      d5 == Assign(d4, "feedback", OrEmpty(result.feedback))
  IN  Assign(d5, "gradingMetadata",
        CastGradingMetadata(
          Prop(result.metadata, "model", "model")
            @@ Prop(result.metadata, "model_version", "modelVersion")
            @@ Prop(result.metadata, "time_ms", "timeMs")
            @@ [gradedAt |-> "now", regraded |-> "true"]))

\* one attempt of withRetry(() => mlService.grade({...}))
regradeCall(r, out) ==
  /\ reqs[r].kind = "regrade" /\ reqs[r].pc = "r_call"
  /\ LET rs == WithRetryStep(DefaultMaxRetries, DefaultDelay, reqs[r].retry, out)
         req == [reqs[r] EXCEPT !.retry = RetryStart,
                   !.log = Append(@, Settled(reqs[r].doc.f.answerText, rs))]
     IN  reqs' = [reqs EXCEPT ![r] =
           IF rs.state = "running" THEN [reqs[r] EXCEPT !.retry = rs]
           ELSE IF rs.state = "thrown"
             THEN [req EXCEPT !.pc = "r_save", !.failure = FailureOf(rs.error),
                     !.doc = SetGradingError(@, rs.error.message)]
           ELSE IF rs.value.isNull
             THEN [req EXCEPT !.pc = "r_save",
                     !.doc = SetGradingError(@, "Cannot read properties of null")]
           ELSE [req EXCEPT !.pc = "r_save",
                   !.doc = RegradeReconcile(@, rs.value.rs[1],
                                            Questions[req.qid].maxScore)]]
  /\ UNCHANGED <<db, nreq, rt>>

\* await submission.save(); res.json(...)
regradeSave(r) ==
  /\ reqs[r].kind = "regrade" /\ reqs[r].pc = "r_save"
  /\ LET doc == reqs[r].doc IN
     IF Validate(doc.f)
       THEN /\ db' = Saved(db, doc, doc.id)
            /\ reqs' = [reqs EXCEPT ![r] =
                 RespondDoc([@ EXCEPT !.doc = AfterSave(db, doc)], 200,
                            IF doc.f.status = "graded"
                              THEN "Regrading completed" ELSE "Regrading failed",
                            doc.f)]
       ELSE /\ db' = db
            /\ reqs' = [reqs EXCEPT ![r] = Respond(@, 500, "Validation failed")]
  /\ UNCHANGED <<nreq, rt>>

(***************************************************************************)
(* overrideScore                                                           *)
(***************************************************************************)
\* req.body.score: absent, null, or a number
OverrideScores == {Undef, Null, Num(-1), Num(0), Num(1), Num(2)}

\* score === undefined || score < 0 || score > 1 (null compares as 0)
ScoreRejected(score) == score.k = "undef" \/ score.v < 0 \/ score.v > 1

\* authorize('teacher', 'admin'); the score check; findById; ownership
overrideStart(r, id, actor, score) ==
  /\ reqs[r].kind = "idle"
  /\ nreq < MaxRequests
  /\ nreq' = nreq + 1
  /\ LET req == [Idle EXCEPT !.kind = "override", !.actor = actor,
                             !.ids = {id}, !.score = score, !.pre = db]
     IN  reqs' = [reqs EXCEPT ![r] =
           IF role(actor) # "teacher"
             THEN Respond(req, 403, "Access denied")
           ELSE IF ScoreRejected(score)
             THEN Respond(req, 400, "Score must be between 0 and 1")
           ELSE IF id \notin DOMAIN db
             THEN Respond(req, 404, "Submission not found")
           ELSE IF Questions[db[id].question].createdBy # actor
             THEN Respond(req, 403, "Not authorized to override this submission")
           ELSE [req EXCEPT !.pc = "o_found", !.doc = Loaded(id),
                            !.qid = db[id].question]]
  /\ UNCHANGED <<db, rt>>

\* the override is recorded and the score replaced
OverrideApplyManualReview(doc, actor, score, maxScore) ==
  LET d1 == Assign(doc, "manualOverride",
                   [set |-> TRUE, overriddenBy |-> actor,
                    originalScore |-> doc.f.overallScore,
                    reason |-> "Manual score override"])
      d2 == Assign(d1, "overallScore", score)
      d3 == Assign(d2, "scaledOverallScore", Mul(score, maxScore))
  IN  Assign(d3, "status", "manual_review")

\* the override is recorded and the machine's details dropped
OverrideApplyClearing(doc, actor, score, maxScore) ==
  LET d1 == Assign(doc, "manualOverride",
                   [set |-> TRUE, overriddenBy |-> actor,
                    originalScore |-> doc.f.overallScore,
                    reason |-> "Manual score override"])
      d2 == Assign(d1, "overallScore", score)
      d3 == Assign(d2, "scaledOverallScore", Mul(score, maxScore))
      d4 == Assign(d3, "status", "graded")
      d5 == Assign(d4, "dimensionScores", <<>>)
  IN  Assign(d5, "feedback", <<>>)

\* the override is recorded; a graded record goes to manual_review first
OverrideApplyReviewFirst(doc, actor, score, maxScore) ==
  LET d1 == Assign(doc, "manualOverride",
                   [set |-> TRUE, overriddenBy |-> actor,
                    originalScore |-> doc.f.overallScore,
                    reason |-> "Manual score override"])
      d2 == Assign(d1, "overallScore", score)
      d3 == Assign(d2, "scaledOverallScore", Mul(score, maxScore))
  IN  Assign(d3, "status",
             IF doc.f.status = "graded" THEN "manual_review" ELSE "graded")

\* manualOverride = {...}; overallScore = score; scaledOverallScore = score *
\* maxScore; status = 'graded'
OverrideApply(doc, actor, score, maxScore) ==
  LET d1 == Assign(doc, "manualOverride",
                   [set |-> TRUE, overriddenBy |-> actor,
                    originalScore |-> doc.f.overallScore,
                    reason |-> "Manual score override"])
      d2 == Assign(d1, "overallScore", score)
      d3 == Assign(d2, "scaledOverallScore", Mul(score, maxScore))
  IN  Assign(d3, "status", "graded")

\* manualOverride = {...}; overallScore = score; ...; await submission.save()
overrideSave(r) ==
  /\ reqs[r].kind = "override" /\ reqs[r].pc = "o_found"
  /\ LET doc == OverrideApply(reqs[r].doc, reqs[r].actor, reqs[r].score,
                              Questions[reqs[r].qid].maxScore)
     IN  IF Validate(doc.f)
           THEN /\ db' = Saved(db, doc, doc.id)
                /\ reqs' = [reqs EXCEPT ![r] =
                     RespondDoc([@ EXCEPT !.doc = AfterSave(db, doc)], 200,
                                "Score overridden successfully", doc.f)]
           ELSE /\ db' = db
                /\ reqs' = [reqs EXCEPT ![r] = Respond(@, 500, "Validation failed")]
  /\ UNCHANGED <<nreq, rt>>

(***************************************************************************)
(* batchGrade                                                              *)
(***************************************************************************)
Entry(id, status, score, error) ==
  [submissionId |-> id, status |-> status, score |-> score, error |-> error]

\* authorize('teacher', 'admin'); submissionIds must be a non-empty array
batchStart(r, ids, actor) ==
  /\ reqs[r].kind = "idle"
  /\ nreq < MaxRequests
  /\ nreq' = nreq + 1
  /\ LET req == [Idle EXCEPT !.kind = "batch", !.actor = actor, !.ids = ids,
                             !.pre = db]
     IN  reqs' = [reqs EXCEPT ![r] =
           IF role(actor) # "teacher"
             THEN Respond(req, 403, "Access denied")
           ELSE IF ids = {}
             THEN Respond(req, 400, "submissionIds array is required")
           ELSE [req EXCEPT !.pc = "b_health"]]
  /\ UNCHANGED <<db, rt>>

\* Submission.find({_id: {$in: submissionIds}}): the documents found, in
\* the order of their insertion
RECURSIVE Find(_, _)
Find(ids, from) ==
  IF from > Cardinality(DOMAIN db) THEN <<>>
  ELSE IF from \in ids THEN <<Loaded(from)>> \o Find(ids, from + 1)
  ELSE Find(ids, from + 1)

\* every submission in a group of its own
GroupEachAlone(docs, i, groups) ==
  [j \in 1..Len(docs) |-> [qid |-> docs[j].f.question, idx |-> <<j>>]]

\* byQuestion: one group per question, in the order of first appearance,
\* each with the positions of its submissions in the order found
RECURSIVE GroupByQuestion(_, _, _)
GroupByQuestion(docs, i, groups) ==
  IF i > Len(docs) THEN groups
  ELSE LET q == docs[i].f.question
           at == {g \in 1..Len(groups) : groups[g].qid = q}
       IN  IF at = {}
             THEN GroupByQuestion(docs, i + 1,
                                  Append(groups, [qid |-> q, idx |-> <<i>>]))
             ELSE GroupByQuestion(docs, i + 1,
                    [groups EXCEPT ![CHOOSE g \in at : TRUE].idx = Append(@, i)])

\* rubricDims of a group is non-null
HasRubric(qid) == Len(Questions[qid].rubricDims) > 0

\* checkHealth: 503 when unhealthy; the submissions are fetched and grouped,
\* and the first scoring call is issued
batchHealth(r, healthy) ==
  /\ reqs[r].kind = "batch" /\ reqs[r].pc = "b_health"
  /\ reqs' = [reqs EXCEPT ![r] =
       IF ~healthy
         THEN Respond([@ EXCEPT !.failure = "unhealthy"], 503, "ML service is not available")
       ELSE IF Find(@.ids, 1) = <<>>
         THEN Respond(@, 404, "No submissions found")
       ELSE [@ EXCEPT !.pc = "b_call", !.docs = Find(reqs[r].ids, 1),
                      !.groups = GroupByQuestion(Find(reqs[r].ids, 1), 1, <<>>),
                      !.gi = 1, !.si = 1, !.retry = RetryStart]]
  /\ UNCHANGED <<db, nreq, rt>>

\* a flat group's submission takes the score of its own grade call
BatchFlatApply(doc, result, maxScore) ==
  LET d1 == Assign(doc, "overallScore", result.overall_score)
      d2 == Assign(d1, "scaledOverallScore", Mul(result.overall_score, maxScore))
      d3 == Assign(d2, "status", "graded")
  IN  Assign(d3, "gradingMetadata",
        CastGradingMetadata(Prop(result.metadata, "model", "model")
                              @@ [gradedAt |-> "now"]))

\* a rubric group's submission takes the result at its index
BatchRubricApply(doc, result, maxScore) ==
  LET d1 == Assign(doc, "overallScore", result.overall_score)
      d2 == Assign(d1, "scaledOverallScore", Mul(result.overall_score, maxScore))
      d3 == Assign(d2, "status", "graded")
      d4 == IF result.per_dimension.def
              THEN Assign(d3, "dimensionScores",
                     [i \in 1..Len(result.per_dimension.v) |->
                        [dimensionName |-> result.per_dimension.v[i].name,
                         score |-> result.per_dimension.v[i].score,
                         scaledScore |-> Undef]])
              ELSE d3
  IN  Assign(d4, "gradingMetadata",
        CastGradingMetadata(Prop(result.metadata, "model", "model")
                              @@ [gradedAt |-> "now", batchGraded |-> "true"]))

\* the result at position i of batchResults.results (0-based i - 1)
ResultAtFirst(results, i) == results[1]

ResultAt(results, i) == results[i]

\* The progress of a group: the collection, the handler's documents, the
\* entries pushed to `results`, and whether an exception left the loop.
\* catch of the flat loop: status = 'error'; save; push
FlatCatch(st, at, message) ==
  LET d == Assign(st.docs[at], "status", "error") IN
  IF Validate(d.f)
    THEN [db |-> Saved(st.db, d, d.id),
          docs |-> [st.docs EXCEPT ![at] = AfterSave(st.db, d)],
          entries |-> Append(st.entries, Entry(d.id, "error", Undef, message)),
          threw |-> FALSE]
    ELSE [st EXCEPT !.docs[at] = d, !.threw = TRUE]

\* one submission of a flat group, once its withRetry has settled
FlatItem(st, at, rs, maxScore) ==
  IF rs.state = "thrown" THEN FlatCatch(st, at, rs.error.message)
  ELSE IF rs.value.isNull THEN FlatCatch(st, at, "Cannot read properties of null")
  ELSE LET d == BatchFlatApply(st.docs[at], rs.value.rs[1], maxScore) IN
       IF Validate(d.f)
         THEN [db |-> Saved(st.db, d, d.id),
               docs |-> [st.docs EXCEPT ![at] = AfterSave(st.db, d)],
               entries |-> Append(st.entries,
                                  Entry(d.id, "graded", d.f.overallScore, "")),
               threw |-> FALSE]
         ELSE FlatCatch([st EXCEPT !.docs[at] = d], at, "Validation failed")

\* catch (mlError) of a rubric group: every submission of the group is
\* marked and saved, in order; a rejected save leaves the handler
RECURSIVE RubricCatch(_, _, _, _)
RubricCatch(st, idx, j, message) ==
  IF j > Len(idx) THEN st
  ELSE LET d == Assign(st.docs[idx[j]], "status", "error") IN
       IF Validate(d.f)
         THEN RubricCatch(
                [db |-> Saved(st.db, d, d.id),
                 docs |-> [st.docs EXCEPT ![idx[j]] = AfterSave(st.db, d)],
                 entries |-> Append(st.entries,
                                    Entry(d.id, "error", Undef, message)),
                 threw |-> FALSE],
                idx, j + 1, message)
         ELSE [st EXCEPT !.docs[idx[j]] = d, !.threw = TRUE]

\* for (let i = 0; i < qSubmissions.length; i++): the result at i is
\* written to the i-th submission, saved and pushed
RECURSIVE RubricLoop(_, _, _, _, _)
RubricLoop(st, idx, i, results, maxScore) ==
  IF i > Len(idx) THEN st
  ELSE IF i > Len(results)
    THEN RubricCatch(st, idx, 1, "Cannot read properties of undefined")
  ELSE LET d == BatchRubricApply(st.docs[idx[i]], ResultAt(results, i), maxScore)
       IN  IF Validate(d.f)
             THEN RubricLoop(
                    [db |-> Saved(st.db, d, d.id),
                     docs |-> [st.docs EXCEPT ![idx[i]] = AfterSave(st.db, d)],
                     entries |-> Append(st.entries,
                                   Entry(d.id, "graded", d.f.overallScore, "")),
                     threw |-> FALSE],
                    idx, i + 1, results, maxScore)
             ELSE RubricCatch([st EXCEPT !.docs[idx[i]] = d], idx, 1,
                              "Validation failed")

\* a rubric group, once its withRetry has settled
RubricGroup(st, idx, rs, maxScore) ==
  IF rs.state = "thrown" THEN RubricCatch(st, idx, 1, rs.error.message)
  ELSE RubricLoop(st, idx, 1, rs.value.rs, maxScore)

BatchResults == {ResRubric, ResFlat, ResDimOutOfRange}

\* answers to POST /grade/batch for n answers: a list of results, of any
\* length up to n, or an error
RECURSIVE ResultLists(_)
ResultLists(n) ==
  IF n = 0 THEN {<<>>}
  ELSE ResultLists(n - 1)
         \cup {Append(l, x) : l \in {m \in ResultLists(n - 1) : Len(m) = n - 1},
                              x \in BatchResults}

BatchOutcomes(n) ==
  {Returned(Body(l)) : l \in ResultLists(n)} \cup {Thrown(e) : e \in CallErrors}

\* the answers the scoring call in flight carries
Answers(req) ==
  LET g == req.groups[req.gi] IN
  IF HasRubric(g.qid)
    THEN [i \in 1..Len(g.idx) |-> req.docs[g.idx[i]].f.answerText]
    ELSE <<req.docs[g.idx[req.si]].f.answerText>>

\* the body of the /grade request in flight: of submitAnswer, of
\* regradeSubmission, or of the flat loop of batchGrade
Payload(req) ==
  IF req.kind = "submit"
    THEN GradePayload(req.answerText, GradeArgs(req.qid))
  ELSE IF req.kind = "regrade"
    THEN GradePayload(req.doc.f.answerText, GradeArgs(req.qid))
  ELSE GradePayload(Answers(req)[1], FlatGradeArgs(req.groups[req.gi].qid))

\* what the scoring call in flight may answer
CallOutcomes(req) ==
  IF HasRubric(req.groups[req.gi].qid)
    THEN BatchOutcomes(Len(req.groups[req.gi].idx))
    ELSE GradeOutcomes

\* one attempt of the scoring call in flight (mlService.batchGrade for a
\* rubric group, mlService.grade for a submission of a flat group); when
\* withRetry settles the group's loop runs, then the next call is issued or
\* the result list is sent
batchCall(r, out) ==
  /\ reqs[r].kind = "batch" /\ reqs[r].pc = "b_call"
  /\ LET req == reqs[r]
         rs == WithRetryStep(DefaultMaxRetries, DefaultDelay, req.retry, out)
         g == req.groups[req.gi]
         maxScore == Questions[g.qid].maxScore
         st0 == [db |-> db, docs |-> req.docs, entries |-> req.results,
                 threw |-> FALSE]
         st == IF HasRubric(g.qid)
                 THEN RubricGroup(st0, g.idx, rs, maxScore)
                 ELSE FlatItem(st0, g.idx[req.si], rs, maxScore)
         moreInGroup == ~HasRubric(g.qid) /\ req.si < Len(g.idx)
         settled == [req EXCEPT !.retry = RetryStart, !.docs = st.docs,
                       !.results = st.entries,
                       !.log = Append(@, [gi |-> req.gi, si |-> req.si,
                                          answers |-> Answers(req),
                                          state |-> rs.state,
                                          value |-> rs.value,
                                          error |-> rs.error])]
     IN  IF rs.state = "running"
           THEN /\ db' = db
                /\ reqs' = [reqs EXCEPT ![r] = [req EXCEPT !.retry = rs]]
           ELSE /\ db' = st.db
                /\ reqs' = [reqs EXCEPT ![r] =
                     IF st.threw
                       THEN Respond(settled, 500, "Failed to batch grade")
                     ELSE IF moreInGroup
                       THEN [settled EXCEPT !.si = @ + 1]
                     ELSE IF req.gi < Len(req.groups)
                       THEN [settled EXCEPT !.gi = @ + 1, !.si = 1]
                     ELSE [settled EXCEPT !.pc = "done",
                             !.resp = [NoResp EXCEPT !.code = 200,
                                                     !.list = st.entries]]]
  /\ UNCHANGED <<nreq, rt>>

(***************************************************************************)
(* Specification: requests are served one at a time                        *)
(***************************************************************************)
\* the ids a request may name: those of the collection and one unknown
SubmissionIds == 1..NextId(db)

RtIdle == [maxRetries |-> 0, delay |-> 0, rs |-> RetryStart, calls |-> <<>>]

Init ==
  /\ db = <<>>
  /\ reqs = [r \in Slots |-> Idle]
  /\ nreq = 0
  /\ rt = RtIdle

Next ==
  \/ \E s \in Students, q \in QuestionIds, a \in AnswerTexts :
       AllIdle /\ submitStart(1, s, q, a)
  \/ \E r \in Slots : submitSavePending(r)
  \/ \E r \in Slots : submitSaveGrading(r)
  \/ \E r \in Slots, h \in BOOLEAN : submitHealth(r, h)
  \/ \E r \in Slots, out \in GradeOutcomes : submitCall(r, out)
  \/ \E r \in Slots : submitSave(r)
  \/ \E id \in SubmissionIds, u \in Users : AllIdle /\ regradeStart(1, id, u)
  \/ \E r \in Slots, h \in BOOLEAN : regradeHealth(r, h)
  \/ \E r \in Slots, out \in GradeOutcomes : regradeCall(r, out)
  \/ \E r \in Slots : regradeSave(r)
  \/ \E id \in SubmissionIds, u \in Users, sc \in OverrideScores :
       AllIdle /\ overrideStart(1, id, u, sc)
  \/ \E r \in Slots : overrideSave(r)
  \/ \E ids \in SUBSET (DOMAIN db), u \in Users :
       AllIdle /\ batchStart(1, ids, u)
  \/ \E r \in Slots, h \in BOOLEAN : batchHealth(r, h)
  \/ \E r \in Slots :
       /\ reqs[r].pc = "b_call"
       /\ \E out \in CallOutcomes(reqs[r]) : batchCall(r, out)
  \/ \E r \in Slots : finish(r)

Spec == Init /\ [][Next]_vars

(***************************************************************************)
(* Concurrent requests: submitAnswer and regradeSubmission invocations of  *)
(* the students run in both slots, interleaved at their awaits.            *)
(***************************************************************************)
\* the questions submitted to and the answers of the scorer while requests
\* overlap: a rubric result, a flat result, and an error that is not retried
ConcQuestions == {"q1"}

ConcOutcomes ==
  {Returned(Body(<<ResRubric>>)), Returned(Body(<<ResFlat>>)), Thrown(Err4xx)}

ConcNext ==
  \/ \E r \in Slots, s \in Students, q \in ConcQuestions, a \in AnswerTexts :
       submitStart(r, s, q, a)
  \/ \E r \in Slots : submitSavePending(r)
  \/ \E r \in Slots : submitSaveGrading(r)
  \/ \E r \in Slots : submitHealth(r, TRUE)
  \/ \E r \in Slots, out \in ConcOutcomes : submitCall(r, out)
  \/ \E r \in Slots : submitSave(r)
  \/ \E r \in Slots, id \in DOMAIN db, u \in Students : regradeStart(r, id, u)
  \/ \E r \in Slots : regradeHealth(r, TRUE)
  \/ \E r \in Slots, out \in ConcOutcomes : regradeCall(r, out)
  \/ \E r \in Slots : regradeSave(r)
  \/ \E r \in Slots : finish(r)

ConcSpec == Init /\ [][ConcNext]_vars

(***************************************************************************)
(* withRetry on its own: one invocation with any maxRetries and delay,     *)
(* whose fn answers anything; `calls` is the history of fn's answers, each *)
(* error tagged with the attempt that met it.                              *)
(***************************************************************************)
RetryDelays == {1000, 250}

RetryErrors == {Err4xx, Err(404, "Request failed with status code 404"),
                Err5xx, ErrTimeout, ErrRefused}

RetryOutcomes(n) ==
  {Returned(Body(<<x>>)) : x \in {ResRubric, ResFlat}}
    \cup {Thrown([e EXCEPT !.n = n]) : e \in RetryErrors}

InitRetry ==
  /\ db = <<>>
  /\ reqs = [r \in Slots |-> Idle]
  /\ nreq = 0
  /\ rt \in {[RtIdle EXCEPT !.maxRetries = m, !.delay = d] :
               m \in 1..MaxRetryParam, d \in RetryDelays}

\* the next iteration of withRetry's loop
retryAttempt(out) ==
  /\ rt.rs.state = "running"
  /\ rt.rs.attempt <= rt.maxRetries
  /\ rt' = [rt EXCEPT !.rs = WithRetryStep(rt.maxRetries, rt.delay, rt.rs, out),
                      !.calls = Append(@, out)]
  /\ UNCHANGED <<db, reqs, nreq>>

NextRetry == \E out \in RetryOutcomes(Len(rt.calls) + 1) : retryAttempt(out)

RetrySpec == InitRetry /\ [][NextRetry]_vars

(***************************************************************************)
(* Properties                                                              *)
(***************************************************************************)
Is4xx(out) == ~out.ok /\ out.err.status \in 400..499

Retryable(out) == ~out.ok /\ out.err.status \notin 400..499

\* C4: withRetry makes no call after a failure with an HTTP 4xx status;
\* after any other failure it calls again while fewer than maxRetries calls
\* were made, so at most maxRetries - 1 additional calls; and the delay
\* waited before attempt n is delay * (n - 1): delay, 2 * delay, ...
C4_RetryPolicy ==
  LET n == Len(rt.calls) IN
  /\ \A i \in 1..n : Is4xx(rt.calls[i]) => i = n /\ rt.rs.state = "thrown"
  /\ n <= rt.maxRetries
  /\ (n > 0 /\ Retryable(rt.calls[n])) =>
        IF n < rt.maxRetries
          THEN rt.rs.state = "running" /\ ENABLED NextRetry
          ELSE rt.rs.state = "thrown"
  /\ Len(rt.rs.waits) = (IF rt.rs.state = "running" \/ n = 0 THEN n ELSE n - 1)
  /\ \A a \in 2..(Len(rt.rs.waits) + 1) : rt.rs.waits[a - 1] = rt.delay * (a - 1)

\* four attempts were made: three waits, then a 4xx that ends the retrying
C4_Witness ==
  /\ Len(rt.calls) = 4
  /\ Len(rt.rs.waits) = 3
  /\ Is4xx(rt.calls[4])
  /\ rt.rs.state = "thrown"

\* C5: withRetry returns the result of the first attempt that succeeds and
\* makes no call after it; when all maxRetries attempts fail with retryable
\* failures it throws the error of the last attempt.
C5_RetryResult ==
  LET n == Len(rt.calls) IN
  /\ \A i \in 1..n : rt.calls[i].ok => i = n /\ ~ENABLED NextRetry
  /\ rt.rs.state = "returned" <=> (n > 0 /\ rt.calls[n].ok)
  /\ rt.rs.state = "returned" => rt.rs.value = rt.calls[n].value
  /\ (n = rt.maxRetries /\ \A i \in 1..n : Retryable(rt.calls[i])) =>
        /\ rt.rs.state = "thrown"
        /\ rt.rs.error = rt.calls[n].err
        /\ rt.rs.error.n = n

\* three attempts with different failures, the last one thrown
C5_Witness ==
  /\ rt.maxRetries = 3
  /\ Len(rt.calls) = 3
  /\ \A i \in 1..3 : Retryable(rt.calls[i])
  /\ rt.calls[1].err.message # rt.calls[3].err.message
  /\ rt.rs.state = "thrown"

\* the submissions a finished or running request is about
Affected(req) ==
  IF req.kind = "submit" THEN (IF req.doc.id = 0 THEN {} ELSE {req.doc.id})
  ELSE req.ids \cap DOMAIN db

\* the status changes of the lifecycle as the claim lists them
ClaimedEdge(old, new, kind) ==
  \/ old = "pending" /\ new = "grading"
  \/ old = "grading" /\ new \in {"graded", "error"}
  \/ kind = "override" /\ old = "graded" /\ new = "manual_review"
  \/ kind = "override" /\ old = "manual_review" /\ new = "graded"
  \/ kind = "submit" /\ new = "pending"

\* C1 (as claimed): every change of a submission's persisted status is one
\* of pending -> grading, grading -> graded, grading -> error, graded ->
\* manual_review or back by an override, anything -> pending by a submit.
C1_ClaimedLifecycle ==
  [][\A id \in DOMAIN db :
       db'[id].status # db[id].status =>
         ClaimedEdge(db[id].status, db'[id].status, reqs[1].kind)]_vars

\* the status changes each operation makes
ActualEdge(old, new, kind) ==
  \/ kind = "submit" /\ new = "pending"
  \/ kind = "submit" /\ old = "pending" /\ new = "grading"
  \/ kind = "regrade" /\ old \in {"graded", "error"} /\ new = "grading"
  \/ kind \in {"submit", "regrade"} /\ old = "grading"
       /\ new \in {"graded", "error"}
  \/ kind = "override" /\ old \in {"grading", "error"} /\ new = "graded"
  \/ kind = "batch" /\ new \in {"graded", "error"}

\* C1 (amended): with requests served one at a time, every change of a
\* submission's persisted status is: to pending by a submit; pending ->
\* grading by a submit; graded or error -> grading by a regrade; grading ->
\* graded or error by a submit or regrade; grading or error -> graded by an
\* override; to graded or error by a batch-grade, directly from the status
\* the record had.  No operation writes manual_review.
C1_Lifecycle ==
  [][\A id \in DOMAIN db :
       db'[id].status # db[id].status =>
         ActualEdge(db[id].status, db'[id].status, reqs[1].kind)]_vars

\* a batch-grade has moved a record from error to graded and an override
\* is about to be saved over a record in error
C1_Witness ==
  \/ /\ reqs[1].kind = "batch" /\ reqs[1].pc = "done"
     /\ \E id \in DOMAIN reqs[1].pre :
          reqs[1].pre[id].status = "error" /\ db[id].status = "graded"
  \/ /\ reqs[1].kind = "override" /\ reqs[1].pc = "done"
     /\ reqs[1].resp.code = 200
     /\ \E id \in DOMAIN reqs[1].pre :
          reqs[1].pre[id].status = "error" /\ db[id].status = "graded"

\* C2: every persisted record in status graded (the status a successful
\* reconciliation or an override leaves) has a numeric overallScore (or
\* null, which multiplies as 0) and scaledOverallScore = overallScore *
\* maxScore of its question.
C2_ScaledScore ==
  \A id \in DOMAIN db :
    db[id].status = "graded" =>
      /\ db[id].overallScore.k \in {"num", "null"}
      /\ db[id].scaledOverallScore.k = "num"
      /\ db[id].scaledOverallScore.v =
           db[id].overallScore.v * Questions[db[id].question].maxScore.v

\* an override to 1 of a record machine-scored 0 on the question whose
\* maxScore is 5 has been saved
C2_Witness ==
  /\ reqs[1].kind = "override" /\ reqs[1].pc = "done"
  /\ reqs[1].resp.code = 200
  /\ \E id \in reqs[1].ids :
       /\ reqs[1].pre[id].status = "graded"
       /\ reqs[1].pre[id].overallScore = Num(0)
       /\ db[id].question = "q2"
       /\ db[id].scaledOverallScore = Num(5)

\* C3: once a submit for a pair that has a record has saved it for the new
\* attempt, and until its scoring call settles, the persisted record has
\* attempts one more than before, no dimension scores, no feedback, no
\* overallScore, no scaledOverallScore and empty gradingMetadata; its status
\* is pending at the first save.
C3_Resubmit ==
  \A r \in Slots :
    (/\ reqs[r].kind = "submit"
     /\ reqs[r].pc \in {"s_pending", "s_health", "s_call"}
     /\ reqs[r].doc.id \in DOMAIN reqs[r].pre) =>
      LET now == db[reqs[r].doc.id]
          before == reqs[r].pre[reqs[r].doc.id]
      IN  /\ now.attempts = before.attempts + 1
          /\ reqs[r].pc = "s_pending" => now.status = "pending"
          /\ now.dimensionScores = <<>>
          /\ now.feedback = <<>>
          /\ now.overallScore = Undef
          /\ now.scaledOverallScore = Undef
          /\ DOMAIN now.gradingMetadata = {}
          /\ now.answerText = reqs[r].answerText

\* a graded record with dimension scores and feedback has been saved for
\* its second attempt
C3_Witness ==
  /\ reqs[1].kind = "submit" /\ reqs[1].pc = "s_pending"
  /\ reqs[1].doc.id \in DOMAIN reqs[1].pre
  /\ LET before == reqs[1].pre[reqs[1].doc.id]
     IN  /\ before.status = "graded"
         /\ Len(before.dimensionScores) = 2
         /\ before.feedback # <<>>
         /\ DOMAIN before.gradingMetadata # {}
  /\ db[reqs[1].doc.id].attempts = 2

\* C6 (as claimed): a finished submit, regrade or batch-grade leaves every
\* record it is about graded or error, or it was rejected and the record is
\* as it was before the call.
C6_NeverStuck ==
  \A r \in Slots :
    (reqs[r].kind \in {"submit", "regrade", "batch"} /\ reqs[r].pc = "done") =>
      \A id \in Affected(reqs[r]) :
        \/ db[id].status \in {"graded", "error"}
        \/ /\ reqs[r].resp.code >= 400
           /\ id \in DOMAIN reqs[r].pre
           /\ db[id] = reqs[r].pre[id]

\* C7 (as claimed): a submit whose scoring failed answers with the record,
\* not an error response; the record returned and persisted has status
\* error and gradingMetadata.error.
C7_SubmitFailureRecorded ==
  \A r \in Slots :
    (reqs[r].kind = "submit" /\ reqs[r].pc = "done"
       /\ reqs[r].failure # "none") =>
      /\ reqs[r].resp.code = 201
      /\ reqs[r].resp.doc.status = "error"
      /\ "error" \in DOMAIN reqs[r].resp.doc.gradingMetadata
      /\ reqs[r].doc.id \in DOMAIN db
      /\ db[reqs[r].doc.id] = reqs[r].resp.doc

\* the submissions the k-th settled scoring call of a batch carried
CallDocs(req, k) ==
  LET g == req.groups[req.log[k].gi] IN
  IF HasRubric(g.qid)
    THEN {req.docs[g.idx[i]].id : i \in 1..Len(g.idx)}
    ELSE {req.docs[g.idx[req.log[k].si]].id}

\* the submissions of a batch whose scoring call failed in all its attempts
Exhausted(req) ==
  UNION {CallDocs(req, k) :
           k \in {j \in 1..Len(req.log) :
                    /\ req.log[j].state = "thrown"
                    /\ req.log[j].error.status \notin 400..499}}

\* C8 (as claimed): when the health check reports unhealthy or all retry
\* attempts fail during submit, regrade or batch-grade, every affected
\* submission ends in status error with the failure reason in its
\* gradingMetadata.
C8_UnavailableRecorded ==
  \A r \in Slots :
    (/\ reqs[r].kind \in {"submit", "regrade", "batch"}
     /\ reqs[r].pc = "done"
     /\ reqs[r].resp.code # 404) =>
      \A id \in (IF reqs[r].failure \in {"unhealthy", "exhausted"}
                   THEN Affected(reqs[r]) ELSE {})
                  \cup (IF reqs[r].kind = "batch"
                          THEN Exhausted(reqs[r]) ELSE {}) :
        /\ db[id].status = "error"
        /\ "error" \in DOMAIN db[id].gradingMetadata

\* a result the schema accepts: scores within [0, 1]
WellFormed(res) ==
  /\ res.overall_score.k = "num"
  /\ res.overall_score.v \in 0..1
  /\ \A d \in 1..Len(res.per_dimension.v) :
       /\ res.per_dimension.v[d].score.k = "num"
       /\ res.per_dimension.v[d].score.v \in 0..1

\* C9: for every rubric-mode scoring call of a batch that returned, the i-th
\* answer sent is the answer of the group's i-th submission, and that
\* submission holds the result at index i (its score and its dimension
\* scores) whenever the results up to i exist and are well-formed; a
\* submission whose score changed holds the score of its own index.
C9_PositionalMapping ==
  \A r \in Slots :
    reqs[r].kind = "batch" =>
      \A k \in 1..Len(reqs[r].log) :
        LET e == reqs[r].log[k]
            g == reqs[r].groups[e.gi]
            res == e.value.rs
        IN  (HasRubric(g.qid) /\ e.state = "returned") =>
              \A i \in 1..Len(g.idx) :
                LET id == reqs[r].docs[g.idx[i]].id IN
                /\ Len(e.answers) = Len(g.idx)
                /\ e.answers[i] = db[id].answerText
                /\ (i <= Len(res) /\ \A j \in 1..i : WellFormed(res[j])) =>
                     /\ db[id].overallScore = res[i].overall_score
                     /\ res[i].per_dimension.def =>
                          /\ Len(db[id].dimensionScores) = Len(res[i].per_dimension.v)
                          /\ \A d \in 1..Len(res[i].per_dimension.v) :
                               /\ db[id].dimensionScores[d].dimensionName
                                    = res[i].per_dimension.v[d].name
                               /\ db[id].dimensionScores[d].score
                                    = res[i].per_dimension.v[d].score
                /\ db[id].overallScore # reqs[r].pre[id].overallScore =>
                     /\ i <= Len(res)
                     /\ db[id].overallScore = res[i].overall_score

\* two submissions with the same answer text were batch-graded and took
\* different results, each the one at its index
C9_Witness ==
  /\ reqs[1].kind = "batch" /\ reqs[1].pc = "done"
  /\ reqs[1].resp.code = 200
  /\ Len(reqs[1].log) = 1
  /\ reqs[1].log[1].state = "returned"
  /\ reqs[1].log[1].answers = <<"a", "a">>
  /\ reqs[1].log[1].value.rs = <<ResFlat, ResRubric>>
  /\ db[1].overallScore = Num(0)
  /\ db[2].overallScore = Num(1)
  /\ Len(db[2].dimensionScores) = 2

\* the entries of a result list about submission id
EntriesOf(list, id) == {i \in 1..Len(list) : list[i].submissionId = id}

\* C10 (as claimed): the result list batch-grade returns has exactly one
\* entry for each submission it was given, each with status graded and a
\* score or status error and an error message.
C10_OneEntryEach ==
  \A r \in Slots :
    (reqs[r].kind = "batch" /\ reqs[r].pc = "done" /\ reqs[r].resp.code = 200) =>
      /\ \A id \in reqs[r].ids :
           Cardinality(EntriesOf(reqs[r].resp.list, id)) = 1
      /\ \A i \in 1..Len(reqs[r].resp.list) :
           LET e == reqs[r].resp.list[i] IN
           /\ e.submissionId \in reqs[r].ids
           /\ \/ e.status = "graded" /\ e.score.k = "num"
              \/ e.status = "error" /\ e.error # ""

\* the questions of the submissions a batch-grade fetched
QuestionsOf(req) == {req.docs[i].f.question : i \in 1..Len(req.docs)}

\* the settled scoring calls of a batch-grade made for its group g
CallsFor(req, g) == {k \in 1..Len(req.log) : req.log[k].gi = g}

\* C11: a batch-grade over submissions of k distinct questions forms
\* exactly k groups, one per question, each holding exactly the submissions
\* of its question; every scoring call carries exactly the answers of its
\* group's submissions (rubric mode) or of one submission of its group
\* (flat mode), and a batch-grade that answers its list has made one call
\* per rubric group and one call per submission of a flat group.
C11_Grouping ==
  \A r \in Slots :
    (reqs[r].kind = "batch" /\ reqs[r].groups # <<>>) =>
      LET req == reqs[r] IN
      /\ Len(req.groups) = Cardinality(QuestionsOf(req))
      /\ \A g, h \in 1..Len(req.groups) :
           g # h => req.groups[g].qid # req.groups[h].qid
      /\ \A g \in 1..Len(req.groups) :
           LET idx == req.groups[g].idx IN
           /\ {idx[i] : i \in 1..Len(idx)}
                = {i \in 1..Len(req.docs) :
                     req.docs[i].f.question = req.groups[g].qid}
           /\ \A i, j \in 1..Len(idx) : i < j => idx[i] < idx[j]
      /\ \A k \in 1..Len(req.log) :
           LET e == req.log[k]
               idx == req.groups[e.gi].idx
           IN  IF HasRubric(req.groups[e.gi].qid)
                 THEN e.answers
                        = [i \in 1..Len(idx) |-> db[req.docs[idx[i]].id].answerText]
                 ELSE e.answers = <<db[req.docs[idx[e.si]].id].answerText>>
      /\ (req.pc = "done" /\ req.resp.code = 200) =>
           \A g \in 1..Len(req.groups) :
             Cardinality(CallsFor(req, g))
               = IF HasRubric(req.groups[g].qid)
                   THEN 1 ELSE Len(req.groups[g].idx)

\* a batch-grade of two submissions of the same rubric question has
\* answered after one scoring call that carried both answers
C11_Witness ==
  /\ reqs[1].kind = "batch" /\ reqs[1].pc = "done"
  /\ reqs[1].resp.code = 200
  /\ Len(reqs[1].docs) = 2
  /\ Len(reqs[1].groups) = 1
  /\ HasRubric(reqs[1].groups[1].qid)
  /\ Len(reqs[1].log) = 1
  /\ Len(reqs[1].log[1].answers) = 2

\* the k-th settled scoring call of a batch-grade failed to score its
\* submissions: it threw, or what it returned has no result for some
\* answer or a result the schema rejects (the flat loop reads the overall
\* score only)
CallFailed(req, k) ==
  LET e == req.log[k] IN
  \/ e.state = "thrown"
  \/ e.value.isNull
  \/ Len(e.value.rs) < Len(e.answers)
  \/ \E j \in 1..Len(e.value.rs) :
       IF HasRubric(req.groups[e.gi].qid)
         THEN ~WellFormed(e.value.rs[j])
         ELSE ~WellFormed([e.value.rs[j] EXCEPT !.per_dimension = NoArr])

\* C12 (as claimed): in a batch-grade that has started scoring and is
\* over, every group has had its scoring call, the submissions of every
\* call that failed are in status error, and the submissions of every call
\* that succeeded are in status graded.
C12_GroupIsolation ==
  \A r \in Slots :
    (reqs[r].kind = "batch" /\ reqs[r].pc = "done" /\ reqs[r].log # <<>>) =>
      /\ \A g \in 1..Len(reqs[r].groups) : CallsFor(reqs[r], g) # {}
      /\ \A k \in 1..Len(reqs[r].log) :
           \A id \in CallDocs(reqs[r], k) :
             db[id].status = IF CallFailed(reqs[r], k) THEN "error" ELSE "graded"

\* C13 (as claimed): the first override of a submission records the
\* overallScore it replaces as manualOverride.originalScore, and an
\* override to a different score of a submission that already has a
\* manualOverride leaves its originalScore as it is.
C13_OriginalScoreKept ==
  [][\A id \in DOMAIN db :
       (reqs[1].kind = "override" /\ db'[id] # db[id]
          /\ reqs[1].score # db[id].overallScore) =>
         db'[id].manualOverride.originalScore
           = IF db[id].manualOverride.set
               THEN db[id].manualOverride.originalScore
               ELSE db[id].overallScore]_vars

\* C14 (as claimed): an override changes a record only when its status is
\* graded or error.
C14_OverrideOnlySettled ==
  [][\A id \in DOMAIN db :
       (reqs[1].kind = "override" /\ db'[id] # db[id]) =>
         db[id].status \in {"graded", "error"}]_vars

\* the fields an override may change
OverrideFields ==
  {"manualOverride", "overallScore", "scaledOverallScore", "status"}

\* C15: after an override that answered 200, the submission has status
\* graded and every field other than manualOverride, overallScore,
\* scaledOverallScore and status (dimensionScores, feedback,
\* gradingMetadata, attempts, answerText, student, question) is as it was
\* before the override; every other submission is unchanged.
C15_OverrideFrame ==
  \A r \in Slots :
    (reqs[r].kind = "override" /\ reqs[r].pc = "done"
       /\ reqs[r].resp.code = 200) =>
      /\ DOMAIN db = DOMAIN reqs[r].pre
      /\ \A id \in DOMAIN db :
           IF id \in reqs[r].ids
             THEN /\ db[id].status = "graded"
                  /\ \A p \in FieldNames \ OverrideFields :
                       db[id][p] = reqs[r].pre[id][p]
             ELSE db[id] = reqs[r].pre[id]

\* an override has replaced the score of a submission that holds dimension
\* scores, feedback and grading metadata
C15_Witness ==
  /\ reqs[1].kind = "override" /\ reqs[1].pc = "done"
  /\ reqs[1].resp.code = 200
  /\ \E id \in reqs[1].ids :
       /\ Len(reqs[1].pre[id].dimensionScores) = 2
       /\ reqs[1].pre[id].feedback # <<>>
       /\ DOMAIN reqs[1].pre[id].gradingMetadata # {}
       /\ db[id].overallScore # reqs[1].pre[id].overallScore
       /\ db[id].manualOverride.set

\* C16 (as claimed): an override whose score is missing or is no number
\* within [0, 1] is answered with an error without leaving its first step,
\* and the collection is as it was before the request.
C16_BadScoreRejected ==
  \A r \in Slots :
    (reqs[r].kind = "override"
       /\ ~(reqs[r].score.k = "num" /\ reqs[r].score.v >= 0
              /\ reqs[r].score.v <= 1)) =>
      /\ reqs[r].pc = "done"
      /\ reqs[r].resp.code >= 400
      /\ db = reqs[r].pre

C18_RegradeFrame ==
  \A r \in Slots :
    reqs[r].kind = "regrade" =>
      /\ DOMAIN db = DOMAIN reqs[r].pre
      /\ \A id \in DOMAIN db :
           /\ db[id].attempts = reqs[r].pre[id].attempts
           /\ db[id].answerText = reqs[r].pre[id].answerText

\* a regrade has ended graded on a submission that was in its second
\* attempt and in status error
C18_Witness ==
  /\ reqs[1].kind = "regrade" /\ reqs[1].pc = "done"
  /\ reqs[1].resp.code = 200
  /\ \E id \in reqs[1].ids :
       /\ reqs[1].pre[id].status = "error"
       /\ reqs[1].pre[id].attempts = 2
       /\ db[id].status = "graded"
       /\ db[id].attempts = 2

\* the names and scores of a response's per-dimension entries, and of a
\* stored dimensionScores list
DimsOf(res) ==
  [i \in 1..Len(res.per_dimension.v) |->
     [name |-> res.per_dimension.v[i].name,
      score |-> res.per_dimension.v[i].score]]

StoredDims(f) ==
  [i \in 1..Len(f.dimensionScores) |->
     [name |-> f.dimensionScores[i].dimensionName,
      score |-> f.dimensionScores[i].score]]

\* the record holds the dimension scores and the feedback of result res,
\* and nothing else
HoldsExactly(f, res) ==
  /\ StoredDims(f) = DimsOf(res)
  /\ f.feedback = OrEmpty(res.feedback)

\* C19 (as claimed): after a submit, regrade or batch-grade that ended with
\* a success response, every submission whose scoring call returned an
\* acceptable result holds exactly the dimension scores of that result
\* (none when the result has none) and exactly its feedback list.
C19_WholesaleReplace ==
  \A r \in Slots :
    LET req == reqs[r] IN
    /\ (/\ req.kind \in {"submit", "regrade"} /\ req.pc = "done"
         /\ req.resp.code \in {200, 201}
         /\ req.log # <<>>
         /\ req.log[1].state = "returned"
         /\ ~req.log[1].value.isNull) =>
          HoldsExactly(db[req.doc.id], req.log[1].value.rs[1])
    /\ (req.kind = "batch" /\ req.pc = "done" /\ req.resp.code = 200) =>
          \A k \in 1..Len(req.log) :
            ~CallFailed(req, k) =>
              LET e == req.log[k]
                  idx == req.groups[e.gi].idx
              IN  IF HasRubric(req.groups[e.gi].qid)
                    THEN \A i \in 1..Len(idx) :
                           HoldsExactly(db[req.docs[idx[i]].id], e.value.rs[i])
                    ELSE HoldsExactly(db[req.docs[idx[e.si]].id], e.value.rs[1])

\* C20: every /grade request in flight, of a submit, a regrade or the flat
\* loop of a batch-grade, carries rubric_dims and no reference_answer when
\* the question has a rubric with at least one dimension, and
\* reference_answer and no rubric_dims otherwise.
C20_OneGradingMode ==
  \A r \in Slots :
    LET req == reqs[r]
        qid == IF req.kind = "batch" THEN req.groups[req.gi].qid ELSE req.qid
    IN  (\/ req.pc \in {"s_call", "r_call"}
         \/ req.pc = "b_call" /\ ~HasRubric(qid)) =>
          /\ "rubric_dims" \in DOMAIN Payload(req)
                <=> Len(Questions[qid].rubricDims) > 0
          /\ "reference_answer" \in DOMAIN Payload(req)
                <=> Len(Questions[qid].rubricDims) = 0
          /\ "answer_text" \in DOMAIN Payload(req)

\* the flat loop of a batch-grade has its second /grade request in flight,
\* carrying the reference answer of the question and no rubric_dims
C20_Witness ==
  /\ reqs[1].kind = "batch" /\ reqs[1].pc = "b_call"
  /\ reqs[1].si = 2
  /\ ~HasRubric(reqs[1].groups[reqs[1].gi].qid)
  /\ DOMAIN Payload(reqs[1]) = {"answer_text", "reference_answer"}
  /\ Payload(reqs[1]).reference_answer = "ref2"

\* C21 (as claimed): whatever submits have run, overlapping or not, no two
\* submission records have the same student and the same question.
C21_OneRecordPerPair ==
  \A i, j \in DOMAIN db :
    (db[i].student = db[j].student /\ db[i].question = db[j].question) =>
      i = j

\* request r is a resubmission that has saved the record for its new
\* attempt
Resubmitted(r) ==
  /\ reqs[r].kind = "submit"
  /\ reqs[r].doc.id \in DOMAIN reqs[r].pre
  /\ reqs[r].pc \notin {"s_found", "idle"}

\* C24: two resubmissions of one record that both read it before either
\* saved leave attempts one above what they read, not two; and the final
\* save of a submit or regrade writes the score it assigned and leaves the
\* stored answerText as it finds it, whether or not that is the text
\* scored.
C24_LostUpdate ==
  /\ [](\A r, o \in Slots :
          (/\ r # o /\ Resubmitted(r) /\ Resubmitted(o)
           /\ reqs[r].doc.id = reqs[o].doc.id
           /\ reqs[r].pre[reqs[r].doc.id].attempts
                = reqs[o].pre[reqs[o].doc.id].attempts) =>
            db[reqs[r].doc.id].attempts
              = reqs[r].pre[reqs[r].doc.id].attempts + 1)
  /\ [][\A r \in Slots :
          (/\ reqs[r].pc \in {"s_save", "r_save"}
           /\ reqs'[r].pc = "done"
           /\ reqs'[r].resp.code \in {200, 201}) =>
            /\ db'[reqs[r].doc.id].answerText = db[reqs[r].doc.id].answerText
            /\ "overallScore" \in reqs[r].doc.mod =>
                 db'[reqs[r].doc.id].overallScore = reqs[r].doc.f.overallScore]_vars

\* two overlapping resubmissions with different answers read attempts 1;
\* the one that saved first has ended graded: the record has attempts 2,
\* the other's answer text, and the score computed for the first's
C24_Witness ==
  /\ Resubmitted(1) /\ Resubmitted(2)
  /\ reqs[1].doc.id = reqs[2].doc.id
  /\ reqs[1].pre[reqs[1].doc.id].attempts = 1
  /\ reqs[2].pre[reqs[2].doc.id].attempts = 1
  /\ reqs[1].pc = "done" /\ reqs[1].resp.code = 201
  /\ reqs[1].resp.doc.status = "graded"
  /\ reqs[1].answerText # reqs[2].answerText
  /\ db[reqs[1].doc.id].attempts = 2
  /\ db[reqs[1].doc.id].answerText = reqs[2].answerText
  /\ db[reqs[1].doc.id].overallScore = Num(1)
  /\ db[reqs[1].doc.id].status = "graded"

\* C22: in every persisted record overallScore is absent (undefined or
\* null) or a number within [0, 1], and every dimension score is a number
\* within [0, 1], whatever the scorer returned.
C22_ScoresInUnit ==
  \A id \in DOMAIN db :
    /\ \/ db[id].overallScore.k \in {"undef", "null"}
       \/ /\ db[id].overallScore.k = "num"
          /\ db[id].overallScore.v >= 0 /\ db[id].overallScore.v <= 1
    /\ \A i \in 1..Len(db[id].dimensionScores) :
         /\ db[id].dimensionScores[i].score.k = "num"
         /\ db[id].dimensionScores[i].score.v >= 0
         /\ db[id].dimensionScores[i].score.v <= 1

\* the scorer answered a submit with overall_score 2 and the handler has
\* finished: the persisted record has no score
C22_Witness ==
  /\ reqs[1].kind = "submit" /\ reqs[1].pc = "done"
  /\ reqs[1].log # <<>>
  /\ reqs[1].log[1].state = "returned"
  /\ reqs[1].log[1].value = Body(<<ResOutOfRange>>)
  /\ db[reqs[1].doc.id].overallScore = Undef

\* C23: a record is created with attempts 1; attempts changes only in a
\* submit, and then to one more than it was: regrade, override and
\* batch-grade leave it unchanged, and it never decreases.
C23_Attempts ==
  [][\A id \in DOMAIN db' :
       IF id \notin DOMAIN db
         THEN db'[id].attempts = 1
         ELSE db'[id].attempts # db[id].attempts =>
                /\ reqs[1].kind = "submit"
                /\ db'[id].attempts = db[id].attempts + 1]_vars

\* a batch-grade has changed the status of a submission in its second
\* attempt, which is still its second
C23_Witness ==
  /\ reqs[1].kind = "batch" /\ reqs[1].pc = "done"
  /\ reqs[1].resp.code = 200
  /\ \E id \in reqs[1].ids :
       /\ reqs[1].pre[id].attempts = 2
       /\ db[id].attempts = 2
       /\ db[id].status # reqs[1].pre[id].status

C26_FlatIndependent ==
  \A r \in Slots :
    (reqs[r].kind = "batch" /\ reqs[r].pc = "done") =>
      \A g \in 1..Len(reqs[r].groups) :
        (~HasRubric(reqs[r].groups[g].qid) /\ CallsFor(reqs[r], g) # {}) =>
          /\ \A i \in 1..Len(reqs[r].groups[g].idx) :
               \E k \in CallsFor(reqs[r], g) :
                 /\ reqs[r].log[k].si = i
                 /\ Len(reqs[r].log[k].answers) = 1
          /\ \A k, l \in CallsFor(reqs[r], g) :
               k < l => reqs[r].log[k].si < reqs[r].log[l].si
          /\ \A k \in CallsFor(reqs[r], g) :
               \A id \in CallDocs(reqs[r], k) :
                 db[id].status
                   = IF CallFailed(reqs[r], k) THEN "error" ELSE "graded"

\* C27 (as claimed): a batch-grade changes a submission only when its actor
\* is the teacher who created the submission's question.
C27_BatchOwnership ==
  \A r \in Slots :
    reqs[r].kind = "batch" =>
      \A id \in DOMAIN db :
        db[id] # reqs[r].pre[id] =>
          Questions[db[id].question].createdBy = reqs[r].actor

\* C28: while a submit, a regrade or a batch-grade runs and when it is
\* over, the manualOverride of every submission that existed before it is
\* as it was before it.
C28_OverrideKept ==
  \A r \in Slots :
    reqs[r].kind \in {"submit", "regrade", "batch"} =>
      \A id \in DOMAIN reqs[r].pre :
        db[id].manualOverride = reqs[r].pre[id].manualOverride

\* a resubmission of an overridden submission has ended graded: the record
\* carries the manualOverride and a machine score that is not the
\* override's
C28_Witness ==
  /\ reqs[1].kind = "submit" /\ reqs[1].pc = "done"
  /\ reqs[1].resp.code = 201
  /\ reqs[1].doc.id \in DOMAIN reqs[1].pre
  /\ reqs[1].pre[reqs[1].doc.id].manualOverride.set
  /\ db[reqs[1].doc.id].manualOverride.set
  /\ db[reqs[1].doc.id].status = "graded"
  /\ db[reqs[1].doc.id].overallScore # reqs[1].pre[reqs[1].doc.id].overallScore

\* C29 (as claimed): after a regrade whose scoring call failed, the record
\* is in status error, its gradingMetadata holds the failure reason, and
\* every other field, the scores, dimension scores and feedback among
\* them, is as it was before the regrade.
C29_FailedRegradeFrame ==
  \A r \in Slots :
    (/\ reqs[r].kind = "regrade" /\ reqs[r].pc = "done"
     /\ reqs[r].resp.code = 200
     /\ reqs[r].resp.doc.status = "error") =>
      LET id == reqs[r].doc.id IN
      /\ db[id].status = "error"
      /\ "error" \in DOMAIN db[id].gradingMetadata
      /\ \A p \in FieldNames \ {"status", "gradingMetadata"} :
           db[id][p] = reqs[r].pre[id][p]

\* C30: no persisted record is ever in status manual_review: every record
\* is pending, grading, graded or error.
C30_NoManualReview ==
  \A id \in DOMAIN db :
    db[id].status \in {"pending", "grading", "graded", "error"}

\* an override of a graded record has been saved, and the record is graded
C30_Witness ==
  /\ reqs[1].kind = "override" /\ reqs[1].pc = "done"
  /\ reqs[1].resp.code = 200
  /\ \E id \in reqs[1].ids :
       /\ reqs[1].pre[id].status = "graded"
       /\ reqs[1].pre[id].manualOverride.set
       /\ db[id].status = "graded"

====
